---- MODULE Spec2Model ----
(***************************************************************************)
(* Model of the architecture discovery pipeline:                           *)
(*   database/mongodb_api.py  DatabaseAPI (JSON file history)               *)
(*   pipeline/evolve.py       ArchitectureEvolver.evolve                    *)
(*   pipeline/eval.py         ArchitectureEvaluator.evaluate / _call_llm    *)
(*   pipeline/analyze.py      ArchitectureAnalyzer.analyze                  *)
(*   pipeline/pipeline.py     ArchitecturePipeline.run_cycle                *)
(*                                                                         *)
(* Numbers.  Python floats are modelled in fixed point.  A configuration   *)
(* value is a tagged record [t, v]: for t = "int" and t = "bool" v is the  *)
(* integer, for t = "float" v is the value in tenths, the other tags       *)
(* ("nan", "inf", "ninf", "str", "none") carry v = 0.  Scores are in       *)
(* tenths, composite scores in hundredths, gauss samples in thousandths.   *)
(***************************************************************************)
EXTENDS Integers, Sequences, FiniteSets, TLC

VARIABLES
    file,         \* the JSON history file [exists, ok, data]: ok iff it holds valid
                  \* JSON, data the list of entries it then holds
    fresh,        \* TRUE iff the DatabaseAPI was constructed since the last cycle
    use_local,    \* ArchitectureEvaluator.use_local (config 'use_local_model')
    pc,           \* position of run_cycle
    parent,       \* run_cycle local parent_arch
    candidate,    \* run_cycle local candidate_arch
    evaluation,   \* run_cycle local evaluation
    report,       \* run_cycle local report
    error,        \* the exception that left run_cycle, "none" if none
    oracle,       \* what the oracle did at this cycle's call (observation)
    oracleCalls,  \* number of requests.post attempts in this cycle
    ioError,      \* the storage operation that failed in this cycle, "none" if none
    ioOps,        \* number of storage operations attempted in this cycle
    startFile,    \* the history file as it was when this cycle started
    returned,     \* the reports returned by run_cycle so far, in call order
    cycles,       \* number of run_cycle calls so far
    procs         \* SpecConc only: the run_cycle of each of two pipeline instances
                  \* on one history file, [pc, report, data]; <<>> elsewhere

vars == <<file, fresh, use_local, pc, parent, candidate, evaluation, report,
          error, oracle, oracleCalls, ioError, ioOps, startFile, returned, cycles,
          procs>>

(***************************************************************************)
(* Bounds of the model.                                                    *)
(***************************************************************************)
MaxCycles == 3

\* the number of run_cycle calls under SpecLive
MaxLiveCycles == 2

None == [none |-> TRUE]

(***************************************************************************)
(* Arithmetic helpers.                                                     *)
(***************************************************************************)
\* int(x / d): Python's int() truncates toward zero
TruncDiv(x, d) == IF x >= 0 THEN x \div d ELSE -((-x) \div d)

(***************************************************************************)
(* Configuration values.                                                   *)
(***************************************************************************)
IntV(n) == [t |-> "int", v |-> n]
FloatV(tenths) == [t |-> "float", v |-> tenths]
BoolV(b) == [t |-> "bool", v |-> b]
StrV == [t |-> "str", v |-> 0]
NoneV == [t |-> "none", v |-> 0]
NanV == [t |-> "nan", v |-> 0]
InfV == [t |-> "inf", v |-> 0]
NegInfV == [t |-> "ninf", v |-> 0]

\* isinstance(x, (int, float)); bool is a subclass of int
IsNumeric(x) == x.t \in {"int", "bool", "float", "nan", "inf", "ninf"}

\* numeric keys of evolve with their (low, high) ranges
NumericKeys == {"hidden_size", "num_layers", "num_heads"}

Low(key) ==
    CASE key = "hidden_size" -> 32
      [] key = "num_layers" -> 1
      [] key = "num_heads" -> 1

High(key) ==
    CASE key = "hidden_size" -> 2048
      [] key = "num_layers" -> 48
      [] key = "num_heads" -> 32

(***************************************************************************)
(* Extended numbers in tenths, with Python's comparison of floats: every   *)
(* comparison with nan is False.                                           *)
(***************************************************************************)
Num(tenths) == [k |-> "num", x |-> tenths]
NanX == [k |-> "nan", x |-> 0]
InfX == [k |-> "inf", x |-> 0]
NegInfX == [k |-> "ninf", x |-> 0]

ToX(val) ==
    CASE val.t \in {"int", "bool"} -> Num(10 * val.v)
      [] val.t = "float" -> Num(val.v)
      [] val.t = "nan" -> NanX
      [] val.t = "inf" -> InfX
      [] val.t = "ninf" -> NegInfX

\* a < b
PyLess(a, b) ==
    CASE a.k = "nan" \/ b.k = "nan" -> FALSE
      [] a.k = "ninf" -> b.k # "ninf"
      [] a.k = "inf" -> FALSE
      [] b.k = "ninf" -> FALSE
      [] b.k = "inf" -> TRUE
      [] OTHER -> a.x < b.x

\* min(a, b): the first argument unless the second is smaller
PyMin(a, b) == IF PyLess(b, a) THEN b ELSE a

\* max(a, b): the first argument unless the second is greater
PyMax(a, b) == IF PyLess(a, b) THEN b ELSE a

\* x + n for an int n (n in units, x in tenths)
PyAdd(x, n) == IF x.k = "num" THEN Num(x.x + 10 * n) ELSE x

(***************************************************************************)
(* ArchitectureEvolver.evolve                                              *)
(***************************************************************************)
\* int(random.gauss(0, noise_scale) * range_size), the sample g in thousandths
Noise(g, key) == TruncDiv(g * (High(key) - Low(key)), 1000)

\* int(max(low, min(high, new_value)))
Clamp(key, new_value) ==
    LET c == PyMax(Num(10 * Low(key)), PyMin(Num(10 * High(key)), new_value))
    IN TruncDiv(c.x, 10)

MidpointRoundUp(key) == (Low(key) + High(key) + 1) \div 2

\* int((low + high) / 2)
Midpoint(key) == TruncDiv(Low(key) + High(key), 2)

EvolveKeyNoClamp(cand, key, g) ==
    IF key \in DOMAIN cand /\ IsNumeric(cand[key])
    THEN LET nv == PyAdd(ToX(cand[key]), Noise(g, key))
         IN IntV(IF nv.k = "num" THEN TruncDiv(nv.x, 10) ELSE High(key))
    ELSE IntV(Midpoint(key))

\* the body of the loop over numeric_keys for one key
EvolveKey(cand, key, g) ==
    IF key \in DOMAIN cand /\ IsNumeric(cand[key])
    THEN IntV(Clamp(key, PyAdd(ToX(cand[key]), Noise(g, key))))
    ELSE IntV(Midpoint(key))

\* f"arch_{n:07d}"
ArchId(n) ==
    CASE n = 0 -> "arch_0000000"
      [] n = 7 -> "arch_0000007"
      [] n = 10000000 -> "arch_10000000"

\* evolve(parent) with the gauss samples g (one per key) and the randint n
evolve(par, g, n) ==
    [k \in DOMAIN par \cup NumericKeys \cup {"id"} |->
        IF k \in NumericKeys THEN EvolveKey(par, k, g[k])
        ELSE IF k = "id" THEN ArchId(n)
        ELSE par[k]]

ArgAliased(par, g, n) == evolve(par, g, n)

\* the argument after evolve returned: candidate = copy.deepcopy(parent), so the
\* assignments to candidate[key] do not reach the caller's dict
ArgAfterEvolve(par, g, n) == par

(***************************************************************************)
(* Oracle responses.  A response text is a sequence of tokens: whitespace, *)
(* a backtick, a word that is no JSON, or one serialized JSON value.       *)
(***************************************************************************)
NoJson == [t |-> "none", m |-> [x \in {} |-> 0]]
Ws == [k |-> "ws", s |-> "", j |-> NoJson]
Bt == [k |-> "bt", s |-> "", j |-> NoJson]
Word(str) == [k |-> "word", s |-> str, j |-> NoJson]
Json(val) == [k |-> "json", s |-> "", j |-> val]

\* fields of a serialized object
NumF(tenths) == [t |-> "num", v |-> tenths]
NumStrF(tenths) == [t |-> "numstr", v |-> tenths]
BadStrF == [t |-> "badstr", v |-> 0]
NullF == [t |-> "null", v |-> 0]

Object(m) == [t |-> "object", m |-> m]
ArrayJ == [t |-> "array", m |-> [x \in {} |-> 0]]
NumberJ == [t |-> "number", m |-> [x \in {} |-> 0]]

Metrics(p, n, c) == [performance |-> p, novelty |-> n, complexity |-> c]

\* the 'fallback' marker of evaluate
FallbackMarker == <<Word("fallback")>>

RECURSIVE LStrip(_, _)
LStrip(text, kind) ==
    IF text # <<>> /\ Head(text).k = kind THEN LStrip(Tail(text), kind) ELSE text

RECURSIVE RStrip(_, _)
RStrip(text, kind) ==
    IF text # <<>> /\ text[Len(text)].k = kind
    THEN RStrip(SubSeq(text, 1, Len(text) - 1), kind)
    ELSE text

\* str.strip() removes whitespace, str.strip of three backticks removes backticks, at both ends
Strip(text, kind) == RStrip(LStrip(text, kind), kind)

\* raw.strip().strip(three backticks).strip()
Cleaned(raw) == Strip(Strip(Strip(raw, "ws"), "bt"), "ws")

(***************************************************************************)
(* ArchitectureEvaluator._call_llm: the oracle's behaviour is the outcome  *)
(* [kind, text]; the result is the exception raised ("none" if none) and   *)
(* the text returned.                                                      *)
(***************************************************************************)
Outcome(kind, text) == [kind |-> kind, text |-> text]
NoCall == Outcome("not_called", <<>>)

call_llm(outcome) ==
    CASE outcome.kind \in {"connection_error", "timeout"} ->
             \* requests.post raises ConnectionError / Timeout
             [exc |-> "RequestException", text |-> <<>>]
      [] outcome.kind = "http_error" ->
             \* r.raise_for_status()
             [exc |-> "RequestException", text |-> <<>>]
      [] outcome.kind = "bad_body" ->
             \* r.json()
             [exc |-> "ValueError", text |-> <<>>]
      [] outcome.kind = "no_field" ->
             \* 'response' not in data
             [exc |-> "ValueError", text |-> <<>>]
      [] outcome.kind = "text" ->
             [exc |-> "none", text |-> outcome.text]

\* json.loads(cleaned): the exception raised and the value
json_loads(cleaned) ==
    IF Len(cleaned) = 1 /\ cleaned[1].k = "json"
    THEN [exc |-> "none", val |-> cleaned[1].j]
    ELSE [exc |-> "JSONDecodeError", val |-> NoJson]

\* float(metrics.get(key, 0.0)): the exception raised and the value in tenths
MetricFloat(metrics, key) ==
    IF metrics.t # "object" THEN [exc |-> "AttributeError", x |-> 0]
    ELSE IF key \notin DOMAIN metrics.m THEN [exc |-> "none", x |-> 0]
    ELSE LET f == metrics.m[key]
         IN CASE f.t \in {"num", "numstr"} -> [exc |-> "none", x |-> f.v]
              [] f.t = "badstr" -> [exc |-> "ValueError", x |-> 0]
              [] f.t = "null" -> [exc |-> "TypeError", x |-> 0]

EvaluationResult(p, n, c, raw) ==
    [performance |-> p, novelty |-> n, complexity |-> c, raw_response |-> raw]

\* the classes that derive from Exception among those raised in the try block
ExceptionClasses ==
    {"RequestException", "ValueError", "JSONDecodeError", "AttributeError", "TypeError"}

CaughtNothing(exc) == FALSE

CaughtRequestOnly(exc) == exc = "RequestException"

\* except Exception
Caught(exc) == exc \in ExceptionClasses

\* the body of the try block: [exc, raw, result]
TryBlock(outcome) ==
    LET call == call_llm(outcome)
        raw == call.text
        loaded == json_loads(Cleaned(raw))
        p == MetricFloat(loaded.val, "performance")
        n == MetricFloat(loaded.val, "novelty")
        c == MetricFloat(loaded.val, "complexity")
        exc == IF call.exc # "none" THEN call.exc
               ELSE IF loaded.exc # "none" THEN loaded.exc
               ELSE IF p.exc # "none" THEN p.exc
               ELSE IF n.exc # "none" THEN n.exc
               ELSE c.exc
    IN [exc |-> exc, raw |-> raw, result |-> EvaluationResult(p.x, n.x, c.x, raw)]

FallbackResultMarkerOnly(raw, rnd) ==
    EvaluationResult(rnd.performance, rnd.novelty, rnd.complexity, FallbackMarker)

\* the fallback: three random.random() values rnd; raw or 'fallback'
FallbackResult(raw, rnd) ==
    EvaluationResult(rnd.performance, rnd.novelty, rnd.complexity,
                     IF raw # <<>> THEN raw ELSE FallbackMarker)

evaluateIgnoringFlag(flag, outcome, rnd) ==
    LET t == TryBlock(outcome)
    IN IF t.exc = "none"
       THEN [raised |-> "none", result |-> t.result, calls |-> 1]
       ELSE [raised |-> "none", result |-> FallbackResult(t.raw, rnd), calls |-> 1]

evaluateWithRetry(flag, outcome, rnd) ==
    IF flag
    THEN LET t == TryBlock(outcome)
         IN IF t.exc = "none"
            THEN [raised |-> "none", result |-> t.result, calls |-> 1]
            ELSE [raised |-> "none", result |-> FallbackResult(TryBlock(outcome).raw, rnd),
                  calls |-> 2]
    ELSE [raised |-> "none", result |-> FallbackResult(<<>>, rnd), calls |-> 0]

\* evaluate(architecture) for the oracle behaviour `outcome` and random values rnd:
\* [raised, result, calls]
evaluate(flag, outcome, rnd) ==
    IF flag
    THEN LET t == TryBlock(outcome)
         IN IF t.exc = "none"
            THEN [raised |-> "none", result |-> t.result, calls |-> 1]
            ELSE IF Caught(t.exc)
            THEN [raised |-> "none", result |-> FallbackResult(t.raw, rnd), calls |-> 1]
            ELSE [raised |-> t.exc, result |-> None, calls |-> 1]
    ELSE [raised |-> "none", result |-> FallbackResult(<<>>, rnd), calls |-> 0]

(***************************************************************************)
(* ArchitectureAnalyzer.analyze                                            *)
(***************************************************************************)
\* 0.6 * performance + 0.3 * novelty - 0.1 * complexity, in hundredths
Weighted(ev) == 6 * ev.performance + 3 * ev.novelty - ev.complexity

MaxInt(a, b) == IF a < b THEN b ELSE a
MinInt(a, b) == IF b < a THEN b ELSE a

CompositeUnclamped(ev) == Weighted(ev)

\* max(0.0, min(1.0, composite))
Composite(ev) == MaxInt(0, MinInt(100, Weighted(ev)))

\* f"{x:.2f}" of a score in tenths: the number of hundredths printed
Fmt2(tenths) == 10 * tenths

Summary(arch, ev, composite) ==
    [id |-> IF "id" \in DOMAIN arch THEN arch["id"] ELSE "unknown",
     performance |-> Fmt2(ev.performance),
     novelty |-> Fmt2(ev.novelty),
     complexity |-> Fmt2(ev.complexity),
     composite |-> composite]

analyze(arch, ev) ==
    [architecture |-> arch,
     evaluation |-> ev,
     composite_score |-> Composite(ev),
     summary |-> Summary(arch, ev, Composite(ev))]

(***************************************************************************)
(* DatabaseAPI: the history file.                                          *)
(***************************************************************************)
AbsentFile == [exists |-> FALSE, ok |-> FALSE, data |-> <<>>]

\* the file after json.dump(data, f) completed
ValidFile(data) == [exists |-> TRUE, ok |-> TRUE, data |-> data]

\* the file after open(path, 'w') truncated it and the dump did not complete:
\* empty or a strict prefix of the serialized list, no valid JSON
TruncatedFile == [exists |-> TRUE, ok |-> FALSE, data |-> <<>>]

db_init_rewrite(f) == ValidFile(<<>>)

\* DatabaseAPI.__init__: an empty list is written only if the file does not exist
db_init(f) == IF ~f.exists THEN ValidFile(<<>>) ELSE f

\* _load_all: io is the outcome of the file system ("ok" or "error")
load_all(f, io) ==
    IF io # "ok" \/ ~f.exists THEN [exc |-> "OSError", data |-> <<>>]
    ELSE IF ~f.ok THEN [exc |-> "JSONDecodeError", data |-> <<>>]
    ELSE [exc |-> "none", data |-> f.data]

\* _save_all: io is "ok", "open_error" (open fails, nothing written) or
\* "write_error" (the file was truncated by open and the dump fails)
save_all(f, data, io) ==
    CASE io = "open_error" -> [exc |-> "OSError", file |-> f]
      [] io = "write_error" -> [exc |-> "OSError", file |-> TruncatedFile]
      [] io = "ok" -> [exc |-> "none", file |-> ValidFile(data)]

BaselineWithId ==
    [id |-> "baseline", hidden_size |-> IntV(512), num_layers |-> IntV(6),
     num_heads |-> IntV(8)]

\* the default of best.get('architecture', ...)
BaselineNoId ==
    [hidden_size |-> IntV(512), num_layers |-> IntV(6), num_heads |-> IntV(8)]

\* x.get('composite_score', 0)
ScoreOf(x) == IF "composite_score" \in DOMAIN x THEN x.composite_score ELSE 0

MaxIndexLast(data) ==
    CHOOSE i \in 1..Len(data) :
        /\ \A j \in 1..Len(data) : ScoreOf(data[j]) <= ScoreOf(data[i])
        /\ \A j \in (i + 1)..Len(data) : ScoreOf(data[j]) < ScoreOf(data[i])

\* max(data, key=...): the first entry whose key no entry exceeds
MaxIndex(data) ==
    CHOOSE i \in 1..Len(data) :
        /\ \A j \in 1..Len(data) : ScoreOf(data[j]) <= ScoreOf(data[i])
        /\ \A j \in 1..(i - 1) : ScoreOf(data[j]) < ScoreOf(data[i])

BestOfLast(data) ==
    IF data = <<>> THEN BaselineWithId
    ELSE data[Len(data)].architecture

BestOrBareBaseline(data) ==
    IF data = <<>> THEN BaselineNoId
    ELSE LET best == data[MaxIndex(data)]
         IN IF "architecture" \in DOMAIN best THEN best.architecture ELSE BaselineNoId

\* the body of sample_parent after the load
Best(data) ==
    IF data = <<>> THEN BaselineWithId
    ELSE LET best == data[MaxIndex(data)]
         IN IF "architecture" \in DOMAIN best THEN best.architecture ELSE BaselineNoId

\* sample_parent: [exc, arch]
sample_parent(f, io) ==
    LET r == load_all(f, io)
    IN IF r.exc # "none" THEN [exc |-> r.exc, arch |-> None]
       ELSE [exc |-> "none", arch |-> Best(r.data)]

EntryWithoutScores(rep) ==
    [architecture |-> rep.architecture,
     evaluation |-> [performance |-> 0, novelty |-> 0, complexity |-> 0,
                     raw_response |-> rep.evaluation.raw_response],
     composite_score |-> rep.composite_score,
     summary |-> rep.summary]

\* the entry save_result builds from a report
Entry(rep) ==
    [architecture |-> rep.architecture,
     evaluation |-> [performance |-> rep.evaluation.performance,
                     novelty |-> rep.evaluation.novelty,
                     complexity |-> rep.evaluation.complexity,
                     raw_response |-> rep.evaluation.raw_response],
     composite_score |-> rep.composite_score,
     summary |-> rep.summary]

NewDataReplace(data, entry) == <<entry>>

\* data.append(entry)
NewData(data, entry) == Append(data, entry)

\* save_result: [exc, file, ops] with rio, wio the outcomes of the read and the write
save_result(f, rep, rio, wio) ==
    LET r == load_all(f, rio)
    IN IF r.exc # "none" THEN [exc |-> r.exc, file |-> f, ops |-> 1, at |-> "read@save"]
       ELSE LET w == save_all(f, NewData(r.data, Entry(rep)), wio)
            IN [exc |-> w.exc, file |-> w.file, ops |-> 2,
                at |-> IF w.exc = "none" THEN "none" ELSE "write@save"]

(***************************************************************************)
(* ArchitecturePipeline.run_cycle, one action per step.                    *)
(***************************************************************************)
\* the inputs drawn in a cycle of the pipeline
GaussMain == {[k \in NumericKeys |-> 50], [k \in NumericKeys |-> -50]}
RandintMain == {0, 7}
GoodObject == Object(Metrics(NumF(9), NumF(5), NumF(3)))
TFenced == <<Bt, Bt, Bt, Ws, Json(GoodObject), Ws, Bt, Bt, Bt>>
TGarbage == <<Word("garbage")>>
OutcomesMain ==
    {Outcome("timeout", <<>>), Outcome("text", TFenced), Outcome("text", TGarbage)}
Rnd(p, n, c) == [performance |-> p, novelty |-> n, complexity |-> c]
RandMain == {Rnd(5, 5, 5), Rnd(9, 0, 9)}

Idle == pc \in {"idle", "returned", "failed"}

AfterSampleSwallow(r) ==
    IF r.exc # "none"
    THEN [pc |-> "sampled", parent |-> BaselineWithId, error |-> "none"]
    ELSE [pc |-> "sampled", parent |-> r.arch, error |-> "none"]

\* parent_arch = self.db.sample_parent(): an exception leaves run_cycle
AfterSample(r) ==
    IF r.exc # "none"
    THEN [pc |-> "failed", parent |-> None, error |-> r.exc]
    ELSE [pc |-> "sampled", parent |-> r.arch, error |-> "none"]

\* run_cycle is called: step 1, sample_parent; at most maxCycles calls are made
StartCycle(maxCycles) ==
    /\ Idle
    /\ cycles < maxCycles
    /\ \E io \in {"ok", "error"} :
         LET r == sample_parent(file, io)
             a == AfterSample(r)
         IN /\ pc' = a.pc
            /\ parent' = a.parent
            /\ error' = a.error
            /\ ioError' = IF r.exc # "none" THEN "read@sample" ELSE "none"
            /\ fresh' = IF a.pc = "failed" THEN FALSE ELSE fresh
    /\ cycles' = cycles + 1
    /\ ioOps' = 1
    /\ startFile' = file
    /\ candidate' = None
    /\ evaluation' = None
    /\ report' = None
    /\ oracle' = NoCall
    /\ oracleCalls' = 0
    /\ UNCHANGED <<procs, file, use_local, returned>>

SampleParent == StartCycle(MaxCycles)

\* step 2, evolve
Evolve ==
    /\ pc = "sampled"
    /\ \E g \in GaussMain, n \in RandintMain :
         /\ candidate' = evolve(parent, g, n)
         /\ parent' = ArgAfterEvolve(parent, g, n)
    /\ pc' = "evolved"
    /\ UNCHANGED <<procs, file, fresh, use_local, evaluation, report, error, oracle,
                   oracleCalls, ioError, ioOps, startFile, returned, cycles>>

\* step 3, evaluate
EvaluateWith(outcomes, rands) ==
    /\ pc = "evolved"
    /\ \E o \in outcomes, rnd \in rands :
         LET r == evaluate(use_local, o, rnd)
         IN /\ evaluation' = r.result
            /\ oracleCalls' = oracleCalls + r.calls
            /\ oracle' = IF r.calls > 0 THEN o ELSE NoCall
            /\ error' = r.raised
            /\ pc' = IF r.raised = "none" THEN "evaluated" ELSE "failed"
    /\ UNCHANGED <<procs, file, fresh, use_local, parent, candidate, report, ioError, ioOps,
                   startFile, returned, cycles>>

Evaluate == EvaluateWith(OutcomesMain, RandMain)

\* step 4, analyze
Analyze ==
    /\ pc = "evaluated"
    /\ report' = analyze(candidate, evaluation)
    /\ pc' = "analyzed"
    /\ UNCHANGED <<procs, file, fresh, use_local, parent, candidate, evaluation, error, oracle,
                   oracleCalls, ioError, ioOps, startFile, returned, cycles>>

\* step 5, save_result, and the return of the report
SaveResult ==
    /\ pc = "analyzed"
    /\ \E rio \in {"ok", "error"}, wio \in {"ok", "open_error", "write_error"} :
         LET r == save_result(file, report, rio, wio)
         IN /\ file' = r.file
            /\ ioOps' = ioOps + r.ops
            /\ ioError' = r.at
            /\ error' = r.exc
            /\ pc' = IF r.exc = "none" THEN "returned" ELSE "failed"
            /\ returned' = IF r.exc = "none" THEN Append(returned, report) ELSE returned
    /\ fresh' = FALSE
    \* the locals of run_cycle end with the call
    /\ parent' = None
    /\ candidate' = None
    /\ evaluation' = None
    /\ report' = None
    /\ UNCHANGED <<procs, use_local, oracle, oracleCalls, startFile, cycles>>

\* the process ends and a new pipeline is constructed on the same path
Restart ==
    /\ Idle
    /\ ~fresh
    /\ file' = db_init(file)
    /\ fresh' = TRUE
    /\ UNCHANGED <<procs, use_local, pc, parent, candidate, evaluation, report, error, oracle,
                   oracleCalls, ioError, ioOps, startFile, returned, cycles>>

Init ==
    /\ file = db_init(AbsentFile)
    /\ fresh = TRUE
    /\ use_local \in BOOLEAN
    /\ pc = "idle"
    /\ parent = None
    /\ candidate = None
    /\ evaluation = None
    /\ report = None
    /\ error = "none"
    /\ oracle = NoCall
    /\ oracleCalls = 0
    /\ ioError = "none"
    /\ ioOps = 0
    /\ startFile = db_init(AbsentFile)
    /\ returned = <<>>
    /\ cycles = 0
    /\ procs = <<>>

Next ==
    \/ SampleParent
    \/ Evolve
    \/ Evaluate
    \/ Analyze
    \/ SaveResult
    \/ Restart

Spec == Init /\ [][Next]_vars

(***************************************************************************)
(* run_cycle under fairness: its body is straight-line code, so a cycle    *)
(* that was started takes each of its steps; the request of evaluate       *)
(* returns or raises (timeout=60).  Whether run_cycle is called again, and *)
(* whether the process is restarted, is up to the caller.                  *)
(***************************************************************************)
SampleParentLive == StartCycle(MaxLiveCycles)

NextLive ==
    \/ SampleParentLive
    \/ Evolve
    \/ Evaluate
    \/ Analyze
    \/ SaveResult
    \/ Restart

SpecLive ==
    /\ Init
    /\ [][NextLive]_vars
    /\ WF_vars(Evolve)
    /\ WF_vars(Evaluate)
    /\ WF_vars(Analyze)
    /\ WF_vars(SaveResult)

(***************************************************************************)
(* evolve as a function of its argument: SpecEvolve applies it to parents  *)
(* drawn from ParentInputs with every gauss vector over GaussSamples.      *)
(***************************************************************************)
Missing == [t |-> "missing", v |-> 0]

\* the values a numeric key takes in a parent
KeyInputs(key) ==
    {Missing, StrV, NoneV, NanV, NegInfV, InfV, BoolV(1),
     IntV(Low(key) - 1), IntV(Low(key)), IntV(High(key)), IntV(High(key) + 1),
     FloatV(10 * Low(key) + 7)}

GaussSamples == {-50, 0, 50}
RandintSamples == {0, 10000000}

\* the dict with the given numeric values, an id if withId, another key if withOther
MakeParent(vals, withId, withOther) ==
    [k \in {k \in NumericKeys : vals[k] # Missing}
           \cup (IF withId THEN {"id"} ELSE {})
           \cup (IF withOther THEN {"activation"} ELSE {}) |->
        IF k \in NumericKeys THEN vals[k]
        ELSE IF k = "id" THEN "arch_0000007"
        ELSE StrV]

ParentInputs ==
    {MakeParent([hidden_size |-> h, num_layers |-> l, num_heads |-> a], i, o) :
        h \in KeyInputs("hidden_size"), l \in KeyInputs("num_layers"),
        a \in KeyInputs("num_heads"), i \in BOOLEAN, o \in {FALSE}}
    \cup {MakeParent([k \in NumericKeys |-> Missing], i, TRUE) : i \in BOOLEAN}

\* the history holding one record with the architecture arch
HistoryOf(arch) ==
    ValidFile(<<Entry(analyze(arch, EvaluationResult(5, 5, 5, FallbackMarker)))>>)

\* sample_parent has returned the architecture of the only record of the history
InitEvolve ==
    /\ parent \in ParentInputs
    /\ file = HistoryOf(parent)
    /\ fresh = TRUE
    /\ use_local = TRUE
    /\ pc = "sampled"
    /\ candidate = None
    /\ evaluation = None
    /\ report = None
    /\ error = "none"
    /\ oracle = NoCall
    /\ oracleCalls = 0
    /\ ioError = "none"
    /\ ioOps = 0
    /\ startFile = file
    /\ returned = <<>>
    /\ cycles = 0
    /\ procs = <<>>

EvolveAny ==
    /\ pc = "sampled"
    /\ \E g \in [NumericKeys -> GaussSamples], n \in RandintSamples :
         /\ candidate' = evolve(parent, g, n)
         /\ parent' = ArgAfterEvolve(parent, g, n)
    /\ pc' = "evolved"
    /\ UNCHANGED <<procs, file, fresh, use_local, evaluation, report, error, oracle,
                   oracleCalls, ioError, ioOps, startFile, returned, cycles>>

NextEvolve == EvolveAny

SpecEvolve == InitEvolve /\ [][NextEvolve]_vars

(***************************************************************************)
(* evaluate and analyze as functions: SpecScore applies them to every      *)
(* oracle behaviour of OracleOutcomes and random triple over RandSamples.  *)
(***************************************************************************)
OutOfRangeObject == Object(Metrics(NumF(15), NumF(-5), NumF(20)))
HighObject == Object(Metrics(NumF(20), NumF(20), NumF(0)))
LowObject == Object(Metrics(NumF(-5), NumF(0), NumF(10)))
PartialObject == Object([performance |-> NumF(9)])
NumStrObject == Object(Metrics(NumStrF(7), NumF(10), NumF(0)))
BadFieldObject == Object(Metrics(NumF(15), BadStrF, NumF(3)))
NullFieldObject == Object(Metrics(NumF(15), NumF(12), NullF))

TPlain == <<Json(GoodObject)>>
TPadded == <<Ws, Json(OutOfRangeObject), Ws>>
THigh == <<Json(HighObject)>>
TLow == <<Json(LowObject)>>
TPartial == <<Json(PartialObject)>>
TNumStr == <<Bt, Bt, Bt, Json(NumStrObject), Bt, Bt, Bt>>
TJsonFence == <<Bt, Bt, Bt, Word("json"), Ws, Json(GoodObject), Ws, Bt, Bt, Bt>>
TEmpty == <<>>
TBlank == <<Ws>>
TTrailing == <<Json(GoodObject), Ws, Word("commentary")>>
TArray == <<Json(ArrayJ)>>
TNumber == <<Json(NumberJ)>>
TBadField == <<Json(BadFieldObject)>>
TNullField == <<Json(NullFieldObject)>>

\* texts from which the three scores are parsed
WellFormedTexts == {TPlain, TFenced, TPadded, THigh, TLow, TPartial, TNumStr}

\* texts that are no serialized object with three numeric scores
MalformedTexts ==
    {TEmpty, TBlank, TGarbage, TTrailing, TArray, TNumber, TBadField, TNullField}

OracleTexts == WellFormedTexts \cup MalformedTexts \cup {TJsonFence}

FailureKinds == {"connection_error", "timeout", "http_error", "bad_body", "no_field"}

OracleOutcomes ==
    {Outcome(k, <<>>) : k \in FailureKinds} \cup {Outcome("text", t) : t \in OracleTexts}

RandValues == {0, 5, 9}
RandSamples == {Rnd(p, n, c) : p \in RandValues, n \in RandValues, c \in RandValues}

CandidateInputs ==
    {evolve(BaselineWithId, [k \in NumericKeys |-> 50], 7),
     [hidden_size |-> IntV(64), num_layers |-> IntV(2), num_heads |-> IntV(4)]}

InitScore ==
    /\ file = db_init(AbsentFile)
    /\ fresh = TRUE
    /\ use_local \in BOOLEAN
    /\ pc = "evolved"
    /\ parent = None
    /\ candidate \in CandidateInputs
    /\ evaluation = None
    /\ report = None
    /\ error = "none"
    /\ oracle = NoCall
    /\ oracleCalls = 0
    /\ ioError = "none"
    /\ ioOps = 0
    /\ startFile = db_init(AbsentFile)
    /\ returned = <<>>
    /\ cycles = 0
    /\ procs = <<>>

EvaluateAny == EvaluateWith(OracleOutcomes, RandSamples)

NextScore ==
    \/ EvaluateAny
    \/ Analyze

SpecScore == InitScore /\ [][NextScore]_vars

(***************************************************************************)
(* Two pipeline instances on one history file, each running run_cycle      *)
(* once.  The steps are the accesses to the file: the read of              *)
(* sample_parent (with the computation of the report, which touches no     *)
(* shared state), the read of save_result, its in-memory append, and the   *)
(* two halves of _save_all: open(path, 'w') truncates the file, json.dump  *)
(* then writes the whole list.  A read of the truncated file raises.       *)
(***************************************************************************)
Instances == {1, 2}

Proc(p, rep, data) == [pc |-> p, report |-> rep, data |-> data]

SetProc(i, p) == [procs EXCEPT ![i] = p]

\* run_cycle up to the call of save_result
CSampleToReport(i) ==
    /\ procs[i].pc = "idle"
    /\ LET r == sample_parent(file, "ok")
       IN IF r.exc # "none"
          THEN procs' = SetProc(i, Proc("failed", None, <<>>))
          ELSE \E g \in GaussMain, n \in RandintMain, o \in OutcomesMain, rnd \in RandMain :
                 LET cand == evolve(r.arch, g, n)
                     ev == evaluate(use_local, o, rnd).result
                 IN procs' = SetProc(i, Proc("analyzed", analyze(cand, ev), <<>>))
    /\ UNCHANGED <<file, fresh, use_local, pc, parent, candidate, evaluation, report,
                   error, oracle, oracleCalls, ioError, ioOps, startFile, returned,
                   cycles>>

\* save_result: data = self._load_all()
CLoad(i) ==
    /\ procs[i].pc = "analyzed"
    /\ LET r == load_all(file, "ok")
       IN procs' = SetProc(i, IF r.exc # "none"
                              THEN Proc("failed", procs[i].report, <<>>)
                              ELSE Proc("loaded", procs[i].report, r.data))
    /\ UNCHANGED <<file, fresh, use_local, pc, parent, candidate, evaluation, report,
                   error, oracle, oracleCalls, ioError, ioOps, startFile, returned,
                   cycles>>

\* save_result: data.append(entry)
CAppend(i) ==
    /\ procs[i].pc = "loaded"
    /\ procs' = SetProc(i, Proc("appended", procs[i].report,
                                NewData(procs[i].data, Entry(procs[i].report))))
    /\ UNCHANGED <<file, fresh, use_local, pc, parent, candidate, evaluation, report,
                   error, oracle, oracleCalls, ioError, ioOps, startFile, returned,
                   cycles>>

\* _save_all: open(self.file_path, 'w')
COpen(i) ==
    /\ procs[i].pc = "appended"
    /\ file' = save_all(file, procs[i].data, "write_error").file
    /\ procs' = SetProc(i, Proc("opened", procs[i].report, procs[i].data))
    /\ UNCHANGED <<fresh, use_local, pc, parent, candidate, evaluation, report,
                   error, oracle, oracleCalls, ioError, ioOps, startFile, returned,
                   cycles>>

\* _save_all: json.dump(data, f, indent=2), then run_cycle returns the report
CDump(i) ==
    /\ procs[i].pc = "opened"
    /\ file' = save_all(file, procs[i].data, "ok").file
    /\ procs' = SetProc(i, Proc("returned", procs[i].report, <<>>))
    /\ returned' = Append(returned, procs[i].report)
    /\ UNCHANGED <<fresh, use_local, pc, parent, candidate, evaluation, report,
                   error, oracle, oracleCalls, ioError, ioOps, startFile, cycles>>

InitConc ==
    /\ file = db_init(AbsentFile)
    /\ fresh = TRUE
    /\ use_local \in BOOLEAN
    /\ pc = "idle"
    /\ parent = None
    /\ candidate = None
    /\ evaluation = None
    /\ report = None
    /\ error = "none"
    /\ oracle = NoCall
    /\ oracleCalls = 0
    /\ ioError = "none"
    /\ ioOps = 0
    /\ startFile = db_init(AbsentFile)
    /\ returned = <<>>
    /\ cycles = 0
    /\ procs = [i \in Instances |-> Proc("idle", None, <<>>)]

NextConc ==
    \E i \in Instances :
        \/ CSampleToReport(i)
        \/ CLoad(i)
        \/ CAppend(i)
        \/ COpen(i)
        \/ CDump(i)

SpecConc == InitConc /\ [][NextConc]_vars

(***************************************************************************)
(* Properties.                                                             *)
(***************************************************************************)
Has(d, k) == k \in DOMAIN d

\* e carries the architecture, scores, diagnostic, composite and summary of rep
RecordCarries(e, rep) ==
    /\ e.architecture = rep.architecture
    /\ e.evaluation.performance = rep.evaluation.performance
    /\ e.evaluation.novelty = rep.evaluation.novelty
    /\ e.evaluation.complexity = rep.evaluation.complexity
    /\ e.evaluation.raw_response = rep.evaluation.raw_response
    /\ e.composite_score = rep.composite_score
    /\ e.summary = rep.summary

\* C1: whenever sample_parent has returned on a non-empty history, the
\* architecture it returned is that of a record of the history file whose
\* composite_score no record of the whole file exceeds.
C1_BestOverWholeHistory ==
    (pc = "sampled" /\ file.ok /\ file.data # <<>>) =>
        \E i \in 1..Len(file.data) :
            /\ file.data[i].architecture = parent
            /\ \A j \in 1..Len(file.data) :
                 file.data[j].composite_score <= file.data[i].composite_score

\* the best record is the oldest of two, not the most recent one
C1_Witness ==
    /\ pc = "sampled"
    /\ file.ok
    /\ Len(file.data) = 2
    /\ file.data[1].composite_score > file.data[2].composite_score
    /\ parent = file.data[1].architecture
    /\ parent # file.data[2].architecture

\* C2: a run_cycle that returns has appended exactly one record to the history
\* it started from, carrying the fields of the report it returns; and when all
\* n calls so far returned, the file holds exactly their n records in call order.
C2_OneRecordPerCycle ==
    /\ pc = "returned" =>
          /\ file.ok
          /\ startFile.ok
          /\ Len(file.data) = Len(startFile.data) + 1
          /\ SubSeq(file.data, 1, Len(startFile.data)) = startFile.data
          /\ RecordCarries(file.data[Len(file.data)], returned[Len(returned)])
    /\ (Idle /\ Len(returned) = cycles) =>
          /\ file.ok
          /\ Len(file.data) = cycles
          /\ \A i \in 1..cycles : RecordCarries(file.data[i], returned[i])

C2_Witness ==
    /\ pc = "returned"
    /\ cycles = 3
    /\ Len(returned) = 3
    /\ file.ok
    /\ Len(file.data) = 3
    /\ returned[1] # returned[2]
    /\ returned[3].evaluation.performance # 0

\* C3: a save_result that returns leaves the previous history followed by one
\* new record, sample_parent leaves the file as it is, and no step that leaves
\* a readable history changes, moves or drops a record stored before.
C3_AppendOnly ==
    [][/\ (pc = "analyzed" /\ pc' = "returned") =>
             /\ file.ok /\ file'.ok
             /\ Len(file'.data) = Len(file.data) + 1
             /\ \A i \in 1..Len(file.data) : file'.data[i] = file.data[i]
             /\ RecordCarries(file'.data[Len(file'.data)], report)
       /\ (pc' = "sampled" \/ pc = "sampled") => file' = file
       /\ (file.ok /\ file'.ok) =>
             /\ Len(file'.data) >= Len(file.data)
             /\ \A i \in 1..Len(file.data) : file'.data[i] = file.data[i]
      ]_vars

C3_Witness ==
    /\ pc = "returned"
    /\ file.ok
    /\ startFile.ok
    /\ Len(startFile.data) = 2
    /\ Len(file.data) = 3
    /\ file.data[1] = startFile.data[1]
    /\ file.data[2] = startFile.data[2]

\* the oracle call or the parsing of its text failed
OracleFailed(o) ==
    \/ o.kind \in {"connection_error", "timeout", "http_error", "bad_body", "no_field"}
    \/ o.kind = "text" /\ o.text \in MalformedTexts

\* a score in [0, 1), in tenths
InUnitInterval(x) == 0 <= x /\ x < 10

\* C4: with the oracle enabled evaluate raises nothing whatever the oracle does,
\* it returns an EvaluationResult, and after a failure of the call or of the
\* parsing the three scores are each in [0,1).
C4_EvaluateNeverRaises ==
    (use_local /\ pc \in {"evaluated", "analyzed", "failed"}) =>
        /\ pc # "failed"
        /\ error = "none"
        /\ oracleCalls = 1
        /\ evaluation # None
        /\ OracleFailed(oracle) =>
              /\ InUnitInterval(evaluation.performance)
              /\ InUnitInterval(evaluation.novelty)
              /\ InUnitInterval(evaluation.complexity)

\* the text parsed to an object whose first score is 1.5 and whose second is no number
C4_Witness ==
    /\ use_local
    /\ pc = "evaluated"
    /\ oracle = Outcome("text", TBadField)
    /\ evaluation.raw_response = TBadField
    /\ evaluation.performance = 9

\* C5: after evolve each of hidden_size, num_layers and num_heads of the
\* candidate is an integer inside [32,2048], [1,48], [1,32], whatever the parent
\* held for it and whatever noise was drawn.
C5_CandidateInRange ==
    pc = "evolved" =>
        /\ NumericKeys \subseteq DOMAIN candidate
        /\ \A k \in NumericKeys : candidate[k].t = "int"
        /\ candidate.hidden_size.v \in 32..2048
        /\ candidate.num_layers.v \in 1..48
        /\ candidate.num_heads.v \in 1..32

\* parent values above, below and at a bound of the range are clamped
C5_Witness ==
    /\ pc = "evolved"
    /\ Has(parent, "hidden_size") /\ parent.hidden_size = IntV(2049)
    /\ Has(parent, "num_layers") /\ parent.num_layers = IntV(0)
    /\ Has(parent, "num_heads") /\ parent.num_heads = IntV(32)
    /\ candidate.hidden_size = IntV(2048)
    /\ candidate.num_layers = IntV(1)
    /\ candidate.num_heads = IntV(32)

\* C6: the composite_score of analyze is min(1, max(0, 0.6p + 0.3n - 0.1c)) of
\* the three scores (hundredths of tenths), hence in [0,1], also for scores
\* that are negative or above 1.
C6_CompositeClamped ==
    pc = "analyzed" =>
        LET w == 6 * evaluation.performance + 3 * evaluation.novelty
                 - evaluation.complexity
        IN /\ report.composite_score = IF w < 0 THEN 0 ELSE IF w > 100 THEN 100 ELSE w
           /\ report.composite_score \in 0..100

\* scores parsed from the oracle, one negative, with a negative weighted sum
C6_Witness ==
    /\ pc = "analyzed"
    /\ evaluation.performance < 0
    /\ evaluation.complexity >= 10
    /\ report.composite_score = 0

C8_SampleSeesEverySave ==
    (pc = "sampled" /\ returned # <<>>) =>
        \E i \in 1..Len(returned) :
            /\ parent = returned[i].architecture
            /\ \A j \in 1..Len(returned) :
                 returned[j].composite_score <= returned[i].composite_score

\* after a restart the parent is the record appended by the cycle just before
C8_Witness ==
    /\ pc = "sampled"
    /\ fresh
    /\ Len(returned) = 2
    /\ returned[2].composite_score > returned[1].composite_score
    /\ parent = returned[2].architecture
    /\ parent # returned[1].architecture

\* C9: a storage operation that fails ends run_cycle with that exception: the
\* cycle does not return a report, no further storage operation is attempted,
\* and after a failed read in sample_parent no candidate, evaluation, oracle call
\* or write exists in that cycle.
C9_StorageFailureIsFatal ==
    /\ ioError # "none" =>
          /\ pc = "failed"
          /\ error \in {"OSError", "JSONDecodeError"}
          /\ Len(returned) < cycles
    /\ ioError = "read@sample" =>
          /\ parent = None /\ candidate = None /\ evaluation = None /\ report = None
          /\ oracleCalls = 0
          /\ ioOps = 1
          /\ file = startFile
    /\ ioError = "read@save" => (ioOps = 2 /\ file = startFile)
    /\ ioError = "write@save" => ioOps = 3

C9_Witness ==
    /\ pc = "failed"
    /\ ioError = "read@sample"
    /\ error = "OSError"
    /\ Len(returned) = 1
    /\ cycles = 2
    /\ file.ok
    /\ Len(file.data) = 1

\* C10: a recognized parameter that the parent lacks or holds as a non-number
\* is set to the truncated midpoint of its range: 1040, 24, 16.
C10_MidpointRepair ==
    pc = "evolved" =>
        \A k \in NumericKeys :
            (~Has(parent, k) \/ parent[k].t \in {"str", "none"}) =>
                candidate[k] = IntV(CASE k = "hidden_size" -> 1040
                                      [] k = "num_layers" -> 24
                                      [] k = "num_heads" -> 16)

C10_Witness ==
    /\ pc = "evolved"
    /\ ~Has(parent, "num_heads")
    /\ Has(parent, "num_layers") /\ parent.num_layers = StrV
    /\ Has(parent, "hidden_size") /\ parent.hidden_size = NoneV
    /\ candidate.num_heads = IntV(16)
    /\ candidate.num_layers = IntV(24)
    /\ candidate.hidden_size = IntV(1040)

\* C11: with the oracle disabled evaluate makes no oracle call, raises nothing,
\* and returns three scores each in [0,1) with the diagnostic 'fallback'.
C11_DisabledOracleFallsBack ==
    (~use_local /\ pc \in {"evaluated", "analyzed", "failed"}) =>
        /\ pc # "failed"
        /\ error = "none"
        /\ oracleCalls = 0
        /\ oracle.kind = "not_called"
        /\ evaluation # None
        /\ InUnitInterval(evaluation.performance)
        /\ InUnitInterval(evaluation.novelty)
        /\ InUnitInterval(evaluation.complexity)
        /\ evaluation.raw_response = <<Word("fallback")>>

C11_Witness ==
    /\ ~use_local
    /\ pc = "evaluated"
    /\ oracleCalls = 0
    /\ evaluation.performance = 9
    /\ evaluation.novelty = 0
    /\ evaluation.raw_response = <<Word("fallback")>>

\* C12: the id evolve assigns differs from the id of the parent, and no two
\* records of the history carry the same architecture id.
C12_IdsUnique ==
    /\ (pc = "evolved" /\ Has(parent, "id")) => candidate["id"] # parent["id"]
    /\ file.ok =>
          \A i, j \in 1..Len(file.data) :
              i # j => file.data[i].architecture["id"] # file.data[j].architecture["id"]

C14_ParentUntouched ==
    [][(pc = "sampled" /\ pc' = "evolved") =>
          /\ parent' = parent
          /\ \A k \in DOMAIN parent \ {"hidden_size", "num_layers", "num_heads", "id"} :
                k \in DOMAIN candidate' /\ candidate'[k] = parent[k]
          /\ file' = file
          /\ file'.data[1].architecture = parent
      ]_vars

\* a parent with another key and an id, evolved into a different candidate
C14_Witness ==
    /\ pc = "evolved"
    /\ Has(parent, "activation")
    /\ Has(parent, "id")
    /\ Has(candidate, "activation")
    /\ candidate["activation"] = parent["activation"]
    /\ candidate["id"] # parent["id"]
    /\ candidate.num_layers = IntV(24)
    /\ ~Has(parent, "num_layers")
    /\ file.data[1].architecture = parent

\* C15: when both instances have finished their run_cycle, the history file
\* holds every report that a run_cycle returned: as many records as reports,
\* and for each report a record that carries it.
C15_NoRecordLost ==
    (\A i \in Instances : procs[i].pc \in {"returned", "failed"}) =>
        /\ file.ok
        /\ Len(file.data) = Len(returned)
        /\ \A k \in 1..Len(returned) :
              \E m \in 1..Len(file.data) : RecordCarries(file.data[m], returned[k])

\* C16: a save_result whose write fails after the file was opened for rewrite
\* leaves the persisted history as it was before the call.
C16_FailedWriteKeepsHistory ==
    ioError = "write@save" => file = startFile

\* C17: the diagnostic of the result is the text received whenever the oracle
\* returned a non-empty text (parsed or not), and the marker 'fallback' when the
\* call itself failed or the text was empty; after a failure the scores are the
\* random ones.
C17_Diagnostic ==
    (use_local /\ pc \in {"evaluated", "analyzed"}) =>
        /\ (oracle.kind = "text" /\ oracle.text # <<>>) =>
              evaluation.raw_response = oracle.text
        /\ (oracle.kind # "text" \/ oracle.text = <<>>) =>
              evaluation.raw_response = <<Word("fallback")>>
        /\ (oracle.kind = "text" /\ oracle.text \in WellFormedTexts) =>
              evaluation.raw_response = oracle.text

\* a text that is no JSON was received: random scores and the text as diagnostic
C17_Witness ==
    /\ use_local
    /\ pc = "evaluated"
    /\ oracle = Outcome("text", TTrailing)
    /\ evaluation.raw_response = TTrailing
    /\ evaluation.performance = 0
    /\ evaluation.novelty = 9

\* C18: a cycle makes at most one oracle call attempt, exactly one when the
\* flag is enabled and evaluate ran, also when the attempt failed or timed out.
C18_SingleOracleAttempt ==
    /\ oracleCalls <= 1
    /\ (pc \in {"evaluated", "analyzed", "returned"} /\ cycles > 0) =>
          oracleCalls = (IF use_local THEN 1 ELSE 0)
    /\ oracle.kind = "timeout" => oracleCalls = 1

\* the attempt timed out and the cycle went on to return its report
C18_Witness ==
    /\ pc = "returned"
    /\ oracle.kind = "timeout"
    /\ oracleCalls = 1
    /\ returned[Len(returned)].evaluation.raw_response = <<Word("fallback")>>

InCycle == pc \in {"sampled", "evolved", "evaluated", "analyzed"}

\* C19: every run_cycle that was started finishes, by returning its report after
\* the append or by failing, and it fails with a storage error only: no outcome
\* of the oracle call, the timeout included, makes the cycle fail.
C19_CycleFinishes ==
    /\ InCycle ~> (pc \in {"returned", "failed"})
    /\ [](pc = "failed" => (ioError # "none" /\ error \in {"OSError", "JSONDecodeError"}))
    /\ []((pc = "returned" /\ cycles > 0) =>
             (file.ok /\ RecordCarries(file.data[Len(file.data)], returned[Len(returned)])))

\* the oracle returned a text that is no JSON and the cycle appended its record
C19_Witness ==
    /\ pc = "returned"
    /\ oracle = Outcome("text", TGarbage)
    /\ cycles = 2
    /\ Len(returned) = 2
    /\ file.ok
    /\ Len(file.data) = 2
    /\ file.data[2].evaluation.raw_response = TGarbage

\* the composite_score of the record whose architecture sample_parent returns
SampledScore(data) ==
    LET S == {data[i].composite_score :
                 i \in {j \in 1..Len(data) : data[j].architecture = Best(data)}}
    IN CHOOSE s \in S : \A t \in S : t <= s

C20_WitnessKept ==
    /\ pc = "returned"
    /\ file.ok
    /\ Len(file.data) = 3
    /\ file.data[3].composite_score <= file.data[2].composite_score
    /\ file.data[1].composite_score < file.data[2].composite_score
    /\ Best(file.data) = file.data[2].architecture
    /\ Best(file.data) # file.data[3].architecture

====
